---- MODULE Spec2Model ----
(***************************************************************************)
(* Model of scripts/convert_embeddings_to_coreml.py: one run of main().    *)
(*                                                                         *)
(* main() is straight-line code.  Every statement that calls into a        *)
(* library (an import, from_pretrained, the tokenizer, torch.jit.trace,    *)
(* ct.convert, an attribute assignment on the converted model, save, stat) *)
(* is one step; the environment decides whether the step returns or        *)
(* raises.  The exceptions modelled are the classes derived from           *)
(* Exception, split the way the except clauses of the script split them:   *)
(* "ImportError" and "Exception" (any other class derived from Exception). *)
(* Interrupts and SystemExit raised from outside the script are not        *)
(* modelled.                                                               *)
(***************************************************************************)
EXTENDS Integers, Sequences, FiniteSets, TLC

VARIABLES
    pc,             \* the statement main() executes next
    exitCode,       \* -1 while running, then the status of the process
    exitHow,        \* "running", "sys.exit", "unhandled" or "return"
    out,            \* what was printed, in order
    trail,          \* the steps executed so far, in order
    stages,         \* the pipeline stages entered so far, in order
    fault,          \* <<>> or <<step, exception class>>: what was raised
    fs,             \* the file system: path -> what is there
    fs0,            \* the file system when the run started
    saved,          \* the model serialized at output_path by this run
    writes,         \* number of save calls that completed in this run
    model,          \* SourceModel
    tokenizer,      \* Tokenizer
    inputs,         \* the tokenized example sentence
    wrapped_model,  \* WrappedModel
    traced_model,   \* TracedGraph
    mlmodel         \* ConvertedModel

vars == <<pc, exitCode, exitHow, out, trail, stages, fault, fs, fs0, saved,
          writes, model, tokenizer, inputs, wrapped_model, traced_model,
          mlmodel>>

proc == <<pc, exitCode, exitHow, out, trail, stages, fault>>
disk == <<fs, fs0, saved, writes>>
objs == <<model, tokenizer, inputs, wrapped_model, traced_model, mlmodel>>

-----------------------------------------------------------------------------
(* Constants of the script *)

max_length == 128

model_dir == <<"Models", "Embeddings">>

output_path == Append(model_dir, "embeddings.mlpackage")

Paths == {model_dir, output_path}

NoObj == [kind |-> "none"]

NoFault == <<>>

Msg(tag, arg) == [tag |-> tag, arg |-> arg]

\* the outcomes of a step: it returns, or raises an exception of a class
Outcomes == {"ok", "ImportError", "Exception"}

Raises == Outcomes \ {"ok"}

\* the order in which main() executes its steps
StepOrder ==
    << "import_torch", "import_transformers", "import_coremltools",
       "check_model_dir", "load_model", "load_tokenizer", "print_config",
       "model_eval", "tokenize", "wrap", "trace", "convert", "set_author",
       "set_short_description", "set_version", "save", "report", "banner" >>

StageOrder ==
    << "Start", "DepsChecked", "ModelLoaded", "Traced", "Converted", "Packaged" >>

-----------------------------------------------------------------------------
(* Ways a step ends *)

\* the step returned: print msgs and go on with the statement at next
Continue(next, msgs) ==
    /\ pc' = next
    /\ out' = out \o msgs
    /\ UNCHANGED <<exitCode, exitHow>>

\* a handler printed msgs and called sys.exit(code)
SysExit(code, msgs) ==
    /\ pc' = "exited"
    /\ exitCode' = code
    /\ exitHow' = "sys.exit"
    /\ out' = out \o msgs

\* no except clause matches: the exception leaves main() and the
\* interpreter prints the traceback and ends the process with status 1
Unhandled(kind) ==
    /\ pc' = "exited"
    /\ exitCode' = 1
    /\ exitHow' = "unhandled"
    /\ out' = Append(out, Msg("traceback", <<kind>>))

Enter(stage) == stages' = Append(stages, stage)

Did == trail' = Append(trail, pc)

\* the step returned / the step stopped with an exception of class kind
Returned == fault' = fault

Raised(kind) == fault' = <<pc, kind>>

-----------------------------------------------------------------------------
(* Step 1: the dependency probe *)

\* mutant: the except clause prints the hint and does not exit
DependencyProbeNoExit(dep, label, next) ==
    /\ Did
    /\ \E r \in Outcomes :
        \/ /\ r = "ok"
           /\ Returned
           /\ Continue(next, <<Msg("version", <<label>>)>>)
        \/ /\ r = "ImportError"
           /\ Raised(r)
           /\ Continue(next, <<Msg("install_hint", <<label, dep>>)>>)
        \/ /\ r = "Exception"
           /\ Raised(r)
           /\ Unhandled(r)

\* try: import dep; print its version / except ImportError: hint, exit(1)
DependencyProbe(dep, label, next) ==
    /\ Did
    /\ \E r \in Outcomes :
        \/ /\ r = "ok"
           /\ Returned
           /\ Continue(next, <<Msg("version", <<label>>)>>)
        \/ /\ r = "ImportError"
           /\ Raised(r)
           /\ SysExit(1, <<Msg("install_hint", <<label, dep>>)>>)
        \/ /\ r = "Exception"
           /\ Raised(r)
           /\ Unhandled(r)

ImportTorch ==
    /\ pc = "import_torch"
    /\ DependencyProbe("torch", "PyTorch", "import_transformers")
    /\ UNCHANGED <<stages, disk, objs>>

ImportTransformers ==
    /\ pc = "import_transformers"
    /\ DependencyProbe("transformers", "Transformers", "import_coremltools")
    /\ UNCHANGED <<stages, disk, objs>>

ImportCoremltools ==
    /\ pc = "import_coremltools"
    /\ DependencyProbe("coremltools", "CoreMLTools", "check_model_dir")
    /\ stages' = IF pc' = "check_model_dir" THEN Append(stages, "DepsChecked")
                 ELSE stages
    /\ UNCHANGED <<disk, objs>>

-----------------------------------------------------------------------------
(* Step 2: the model directory and the load *)

\* mutant: the missing directory is reported and the run goes on
CheckModelDirNoExit ==
    /\ pc = "check_model_dir"
    /\ Did
    /\ IF fs[model_dir] = "absent"
       THEN /\ Raised("missing")
            /\ Continue("load_model", <<Msg("dir_not_found", model_dir)>>)
       ELSE /\ Returned
            /\ Continue("load_model", <<Msg("loading_from", model_dir)>>)
    /\ UNCHANGED <<stages, disk, objs>>

\* if not model_dir.exists(): print, exit(1)
CheckModelDir ==
    /\ pc = "check_model_dir"
    /\ Did
    /\ IF fs[model_dir] = "absent"
       THEN /\ Raised("missing")
            /\ SysExit(1, <<Msg("dir_not_found", model_dir)>>)
       ELSE /\ Returned
            /\ Returned
            /\ Continue("load_model", <<Msg("loading_from", model_dir)>>)
    /\ UNCHANGED <<stages, disk, objs>>

\* mutant: the handler reports and falls through to the code after the try
LoadHandlerFallsThrough(kind) ==
    Continue("model_eval", <<Msg("load_failed", <<kind>>)>>)

\* except Exception as e: print("Failed to load model"), exit(1)
LoadHandler(kind) ==
    SysExit(1, <<Msg("load_failed", <<kind>>)>>)

\* from transformers import ...; model = AutoModel.from_pretrained(...)
\* The mode the library returns the model in is the library's choice.
LoadModel ==
    /\ pc = "load_model"
    /\ Did
    /\ \/ /\ \E t \in BOOLEAN :
                model' = [kind |-> "SourceModel", training |-> t]
          /\ Returned
          /\ Continue("load_tokenizer", <<>>)
       \/ /\ \E k \in Raises : Raised(k) /\ LoadHandler(k)
          /\ model' = model
    /\ UNCHANGED <<stages, disk, tokenizer, inputs, wrapped_model,
                   traced_model, mlmodel>>

\* tokenizer = AutoTokenizer.from_pretrained(...)
LoadTokenizer ==
    /\ pc = "load_tokenizer"
    /\ Did
    /\ \/ /\ tokenizer' = [kind |-> "Tokenizer"]
          /\ Returned
          /\ Continue("print_config", <<>>)
       \/ /\ \E k \in Raises : Raised(k) /\ LoadHandler(k)
          /\ tokenizer' = tokenizer
    /\ UNCHANGED <<stages, disk, model, inputs, wrapped_model, traced_model,
                   mlmodel>>

\* the three prints of model.config, still inside the try block
PrintConfig ==
    /\ pc = "print_config"
    /\ Did
    /\ \/ Returned /\ Continue("model_eval", <<Msg("model_loaded", <<>>)>>)
       \/ \E k \in Raises : Raised(k) /\ LoadHandler(k)
    /\ UNCHANGED <<stages, disk, objs>>

\* model.eval(), outside every try block
ModelEval ==
    /\ pc = "model_eval"
    /\ Did
    /\ \/ /\ model' = [model EXCEPT !.training = FALSE]
          /\ Returned
          /\ Continue("tokenize", <<Msg("tracing", <<>>)>>)
          /\ Enter("ModelLoaded")
       \/ /\ \E k \in Raises : Raised(k) /\ Unhandled(k)
          /\ UNCHANGED <<model, stages>>
    /\ UNCHANGED <<disk, tokenizer, inputs, wrapped_model, traced_model,
                   mlmodel>>

-----------------------------------------------------------------------------
(* Step 3: tracing *)

\* mutant: the handler reports and falls through to the conversion
TraceHandlerFallsThrough(kind) ==
    Continue("convert", <<Msg("trace_failed", <<kind>>)>>)

\* mutant: the handler copies the troubleshooting note of the conversion
TraceHandlerWithNote(kind) ==
    SysExit(1, <<Msg("trace_failed", <<kind>>), Msg("note", <<"1", "2", "3">>)>>)

\* except Exception as e: print("Failed to trace model"), exit(1)
TraceHandler(kind) ==
    SysExit(1, <<Msg("trace_failed", <<kind>>)>>)

\* inputs = tokenizer(example_text, padding="max_length",
\*                    max_length=max_length, truncation=True)
Tokenize ==
    /\ pc = "tokenize"
    /\ Did
    /\ \/ /\ inputs' = [kind |-> "Inputs",
                        input_ids |-> <<1, max_length>>,
                        attention_mask |-> <<1, max_length>>]
          /\ Returned
          /\ Continue("wrap", <<>>)
       \/ /\ \E k \in Raises : Raised(k) /\ TraceHandler(k)
          /\ inputs' = inputs
    /\ UNCHANGED <<stages, disk, model, tokenizer, wrapped_model,
                   traced_model, mlmodel>>

\* mutant: wrapped_model.train() in place of wrapped_model.eval()
WrapTrain ==
    /\ pc = "wrap"
    /\ Did
    /\ \/ /\ wrapped_model' = [kind |-> "WrappedModel", training |-> TRUE]
          /\ model' = [model EXCEPT !.training = TRUE]
          /\ Returned
          /\ Continue("trace", <<>>)
       \/ /\ \E k \in Raises : Raised(k) /\ TraceHandler(k)
          /\ UNCHANGED <<wrapped_model, model>>
    /\ UNCHANGED <<stages, disk, tokenizer, inputs, traced_model, mlmodel>>

\* wrapped_model = EmbeddingModelWrapper(model); wrapped_model.eval()
\* eval() on the wrapper sets the inference mode on its child as well.
Wrap ==
    /\ pc = "wrap"
    /\ Did
    /\ \/ /\ wrapped_model' = [kind |-> "WrappedModel", training |-> FALSE]
          /\ model' = [model EXCEPT !.training = FALSE]
          /\ Returned
          /\ Continue("trace", <<>>)
       \/ /\ \E k \in Raises : Raised(k) /\ TraceHandler(k)
          /\ UNCHANGED <<wrapped_model, model>>
    /\ UNCHANGED <<stages, disk, tokenizer, inputs, traced_model, mlmodel>>

\* traced_model = torch.jit.trace(wrapped_model, (input_ids, attention_mask))
Trace ==
    /\ pc = "trace"
    /\ Did
    /\ \/ /\ traced_model' = [kind |-> "TracedGraph",
                              shape |-> inputs.input_ids]
          /\ Returned
          /\ Continue("convert", <<Msg("traced", <<>>), Msg("converting", <<>>)>>)
          /\ Enter("Traced")
       \/ /\ \E k \in Raises : Raised(k) /\ TraceHandler(k)
          /\ UNCHANGED <<traced_model, stages>>
    /\ UNCHANGED <<disk, model, tokenizer, inputs, wrapped_model, mlmodel>>

-----------------------------------------------------------------------------
(* Steps 4 and 5: conversion and packaging, one try block *)

TensorType(name, shape) == [name |-> name, shape |-> shape, dtype |-> "int"]

\* mutant: the inputs declared with the sequence axis first
ConvertedModelTransposed ==
    [kind |-> "MLModel",
     inputs |-> << TensorType("input_ids", <<max_length, 1>>),
                   TensorType("attention_mask", <<max_length, 1>>) >>,
     outputs |-> << "embeddings" >>,
     minimum_deployment_target |-> "iOS17",
     author |-> "",
     short_description |-> "",
     version |-> ""]

\* what ct.convert(traced_model, inputs=[...], outputs=[...], ...) returns
ConvertedModel ==
    [kind |-> "MLModel",
     inputs |-> << TensorType("input_ids", <<1, max_length>>),
                   TensorType("attention_mask", <<1, max_length>>) >>,
     outputs |-> << "embeddings" >>,
     minimum_deployment_target |-> "iOS17",
     author |-> "",
     short_description |-> "",
     version |-> ""]

TroubleshootingNote == Msg("note", <<"1", "2", "3">>)

\* mutant: the handler reports and falls through to the closing banner
ConversionHandlerFallsThrough(pre, kind) ==
    Continue("banner",
             pre \o <<Msg("conversion_failed", <<kind>>), TroubleshootingNote>>)

\* except Exception as e: print("Conversion failed"), the note, exit(1);
\* pre is what the try block printed before the exception
ConversionHandler(pre, kind) ==
    SysExit(1, pre \o <<Msg("conversion_failed", <<kind>>), TroubleshootingNote>>)

Convert ==
    /\ pc = "convert"
    /\ Did
    /\ \/ /\ mlmodel' = ConvertedModel
          /\ Returned
          /\ Continue("set_author", <<>>)
          /\ Enter("Converted")
       \/ /\ \E k \in Raises : Raised(k) /\ ConversionHandler(<<>>, k)
          /\ UNCHANGED <<mlmodel, stages>>
    /\ UNCHANGED <<disk, model, tokenizer, inputs, wrapped_model, traced_model>>

\* mlmodel.author = "sentence-transformers"
SetAuthor ==
    /\ pc = "set_author"
    /\ Did
    /\ \/ /\ mlmodel' = [mlmodel EXCEPT !.author = "sentence-transformers"]
          /\ Returned
          /\ Continue("set_short_description", <<>>)
       \/ /\ \E k \in Raises : Raised(k) /\ ConversionHandler(<<>>, k)
          /\ mlmodel' = mlmodel
    /\ UNCHANGED <<stages, disk, model, tokenizer, inputs, wrapped_model,
                   traced_model>>

\* mlmodel.short_description = "all-MiniLM-L6-v2 sentence embedding model"
SetShortDescription ==
    /\ pc = "set_short_description"
    /\ Did
    /\ \/ /\ mlmodel' = [mlmodel EXCEPT !.short_description =
                            "all-MiniLM-L6-v2 sentence embedding model"]
          /\ Returned
          /\ Continue("set_version", <<>>)
       \/ /\ \E k \in Raises : Raised(k) /\ ConversionHandler(<<>>, k)
          /\ mlmodel' = mlmodel
    /\ UNCHANGED <<stages, disk, model, tokenizer, inputs, wrapped_model,
                   traced_model>>

\* mlmodel.version = "1.0.0"
SetVersion ==
    /\ pc = "set_version"
    /\ Did
    /\ \/ /\ mlmodel' = [mlmodel EXCEPT !.version = "1.0.0"]
          /\ Returned
          /\ Continue("save", <<>>)
       \/ /\ \E k \in Raises : Raised(k) /\ ConversionHandler(<<>>, k)
          /\ mlmodel' = mlmodel
    /\ UNCHANGED <<stages, disk, model, tokenizer, inputs, wrapped_model,
                   traced_model>>

\* mutant: the save placed after the try block, where nothing catches
SaveUnguarded ==
    /\ pc = "save"
    /\ Did
    /\ \/ /\ fs' = [fs EXCEPT ![output_path] = "package"]
          /\ saved' = mlmodel
          /\ writes' = writes + 1
          /\ Returned
          /\ Continue("report", <<>>)
       \/ /\ \E k \in Raises : Raised(k) /\ Unhandled(k)
          /\ \E left \in {fs[output_path], "partial"} :
                fs' = [fs EXCEPT ![output_path] = left]
          /\ UNCHANGED <<saved, writes>>
    /\ UNCHANGED <<stages, fs0, objs>>

\* mlmodel.save(str(output_path)).  A save that raises may have written
\* nothing or part of the package: that is the library's choice.
Save ==
    /\ pc = "save"
    /\ Did
    /\ \/ /\ fs' = [fs EXCEPT ![output_path] = "package"]
          /\ saved' = mlmodel
          /\ writes' = writes + 1
          /\ Returned
          /\ Continue("report", <<>>)
       \/ /\ \E k \in Raises : Raised(k) /\ ConversionHandler(<<>>, k)
          /\ \E left \in {fs[output_path], "partial"} :
                fs' = [fs EXCEPT ![output_path] = left]
          /\ UNCHANGED <<saved, writes>>
    /\ UNCHANGED <<stages, fs0, objs>>

\* the three prints after the save; the third calls output_path.stat()
Report ==
    /\ pc = "report"
    /\ Did
    /\ \/ /\ Returned
          /\ Continue("banner", << Msg("converted", <<>>),
                                  Msg("output", output_path),
                                  Msg("size", output_path) >>)
          /\ Enter("Packaged")
       \/ /\ \E k \in Raises :
                /\ Raised(k)
                /\ ConversionHandler(<< Msg("converted", <<>>),
                                        Msg("output", output_path) >>, k)
          /\ UNCHANGED stages
    /\ UNCHANGED <<disk, objs>>

\* the closing banner; main() returns and the process ends with status 0
Banner ==
    /\ pc = "banner"
    /\ Did
    /\ pc' = "exited"
    /\ exitCode' = 0
    /\ exitHow' = "return"
    /\ out' = Append(out, Msg("complete", <<>>))
    /\ UNCHANGED <<stages, fault, disk, objs>>

-----------------------------------------------------------------------------
(* The run *)

\* the file systems a run can start in: the artifact of an earlier run can
\* be there only if the model directory is
StartFs ==
    { f \in [Paths -> {"absent", "dir", "package"}] :
        /\ f[model_dir] \in {"absent", "dir"}
        /\ f[output_path] \in {"absent", "package"}
        /\ f[model_dir] = "absent" => f[output_path] = "absent" }

Init ==
    /\ pc = "import_torch"
    /\ exitCode = -1
    /\ exitHow = "running"
    /\ out = <<Msg("title", <<>>)>>
    /\ trail = <<>>
    /\ stages = <<"Start">>
    /\ fault = NoFault
    /\ fs \in StartFs
    /\ fs0 = fs
    /\ saved = NoObj
    /\ writes = 0
    /\ model = NoObj
    /\ tokenizer = NoObj
    /\ inputs = NoObj
    /\ wrapped_model = NoObj
    /\ traced_model = NoObj
    /\ mlmodel = NoObj

Next ==
    \/ ImportTorch
    \/ ImportTransformers
    \/ ImportCoremltools
    \/ CheckModelDir
    \/ LoadModel
    \/ LoadTokenizer
    \/ PrintConfig
    \/ ModelEval
    \/ Tokenize
    \/ Wrap
    \/ Trace
    \/ Convert
    \/ SetAuthor
    \/ SetShortDescription
    \/ SetVersion
    \/ Save
    \/ Report
    \/ Banner

Spec == Init /\ [][Next]_vars

-----------------------------------------------------------------------------
(* Vocabulary of the properties *)

Terminated == pc = "exited"

Printed(tag) == \E i \in DOMAIN out : out[i].tag = tag

Ran(step) == \E i \in DOMAIN trail : trail[i] = step

Prefix(s, t) == Len(s) <= Len(t) /\ s = SubSeq(t, 1, Len(s))

\* a step of the given set stopped with an exception
RaisedIn(steps) ==
    fault # NoFault /\ fault[1] \in steps /\ fault[2] \in Raises

ProbeSteps == {"import_torch", "import_transformers", "import_coremltools"}

TraceSteps == {"tokenize", "wrap", "trace"}

PackagerSteps == {"set_author", "set_short_description", "set_version",
                  "save", "report"}

ConversionTrySteps == {"convert"} \cup PackagerSteps

AllSteps == { StepOrder[i] : i \in DOMAIN StepOrder }

NothingCreated ==
    /\ model = NoObj /\ tokenizer = NoObj /\ inputs = NoObj
    /\ wrapped_model = NoObj /\ traced_model = NoObj /\ mlmodel = NoObj

NothingWritten == writes = 0 /\ fs = fs0 /\ saved = NoObj

\* the number of steps main() has executed when it enters a stage
StepsBefore(stage) ==
    CASE stage = "DepsChecked" -> 3
      [] stage = "ModelLoaded" -> 8
      [] stage = "Traced"      -> 11
      [] stage = "Converted"   -> 12
      [] stage = "Packaged"    -> 17

-----------------------------------------------------------------------------
(* C1: the stages are entered only in the order Start, DepsChecked,        *)
(* ModelLoaded, Traced, Converted, Packaged: whenever a stage is entered   *)
(* it is the successor of the last stage entered, every step up to it has  *)
(* been executed exactly once and in order, and none of them failed.       *)
C1_StagesInOrder ==
    [][ stages' # stages =>
          /\ \E k \in 1..(Len(StageOrder) - 1) :
                /\ stages = SubSeq(StageOrder, 1, k)
                /\ stages' = SubSeq(StageOrder, 1, k + 1)
                /\ trail' = SubSeq(StepOrder, 1, StepsBefore(StageOrder[k + 1]))
          /\ fault' = NoFault ]_vars

C1_Witness == Terminated /\ stages = StageOrder

(* C2: an exception raised by any step ends the run at once, with process  *)
(* exit status 1 (through a handler's sys.exit(1), or, where no handler    *)
(* matches, through the interpreter).                                      *)
C2_RaiseExitsOne ==
    RaisedIn(AllSteps) => Terminated /\ exitCode = 1

C2_Witness ==
    /\ fault = <<"model_eval", "Exception">>
    /\ Terminated /\ exitCode = 1 /\ exitHow = "unhandled"

(* C3: the dependencies are probed in the order torch, transformers,       *)
(* coremltools; at the first that cannot be imported the run prints the    *)
(* install hint naming it and exits with 1, having probed none of the      *)
(* later ones, before the directory check and before any load.             *)
DepNames == <<"torch", "transformers", "coremltools">>

C3_ProbeStopsAtFirstMissing ==
    /\ Prefix(trail, StepOrder)
    /\ \A d \in 1..3 :
         fault = <<StepOrder[d], "ImportError">> =>
            /\ Terminated /\ exitCode = 1 /\ exitHow = "sys.exit"
            /\ out[Len(out)].tag = "install_hint"
            /\ out[Len(out)].arg[2] = DepNames[d]
            /\ Cardinality({ i \in DOMAIN out : out[i].tag = "install_hint" }) = 1
            /\ trail = SubSeq(StepOrder, 1, d)
            /\ ~ Printed("dir_not_found") /\ ~ Printed("loading_from")
            /\ NothingCreated

C3_Witness ==
    /\ fault = <<"import_transformers", "ImportError">>
    /\ Terminated /\ Printed("install_hint")

(* C4: when the three imports succeed and Models/Embeddings does not       *)
(* exist, the run prints the message naming that path and exits with 1;    *)
(* nothing is loaded, tokenized, traced, converted or written.             *)
C4_MissingDirStops ==
    (Ran("check_model_dir") /\ fs0[model_dir] = "absent") =>
        /\ Terminated /\ exitCode = 1 /\ exitHow = "sys.exit"
        /\ out[Len(out)] = Msg("dir_not_found", <<"Models", "Embeddings">>)
        /\ trail = SubSeq(StepOrder, 1, 4)
        /\ NothingCreated
        /\ NothingWritten

C4_Witness ==
    /\ Ran("check_model_dir") /\ fs0[model_dir] = "absent"
    /\ Terminated /\ Printed("dir_not_found")

(* C5: when a step of the tracing stage (tokenize, wrapper construction,   *)
(* trace) raises, the run exits with 1 and neither the conversion, the     *)
(* metadata assignments nor the save is executed.                          *)
C5_TraceFailureStops ==
    RaisedIn(TraceSteps) =>
        /\ Terminated /\ exitCode = 1
        /\ \A st \in ConversionTrySteps : ~ Ran(st)
        /\ mlmodel = NoObj
        /\ NothingWritten

C5_Witness ==
    /\ fault = <<"trace", "Exception">>
    /\ Terminated /\ Printed("trace_failed")

(* C6, as stated: an exception raised inside the Packager stage (metadata, *)
(* save, size report) is caught by no handler: it ends the run as an       *)
(* unhandled fault and is not reported as a conversion failure.            *)
C6_PackagerFaultUnhandled ==
    RaisedIn(PackagerSteps) =>
        /\ exitHow = "unhandled"
        /\ ~ Printed("conversion_failed")

(* C6, amended: an exception raised inside the Packager stage is caught by *)
(* the handler of the conversion try block, which encloses the stage: the  *)
(* run reports a conversion failure with the troubleshooting note and      *)
(* ends by sys.exit(1).                                                    *)
C6_PackagerFaultCaught ==
    RaisedIn(PackagerSteps) =>
        /\ Terminated /\ exitHow = "sys.exit" /\ exitCode = 1
        /\ out[Len(out) - 1].tag = "conversion_failed"
        /\ out[Len(out)] = TroubleshootingNote
        /\ ~ Printed("traceback")

C6_Witness ==
    /\ fault = <<"save", "Exception">>
    /\ Terminated /\ exitHow = "sys.exit" /\ Printed("conversion_failed")

(* C7: a run that ends in failure has not written the output artifact (no  *)
(* save of it completed in that run); the artifact is written only by runs *)
(* that end in Packaged with status 0.                                     *)
C7_NoArtifactOnFailure ==
    (Terminated /\ exitCode # 0) => writes = 0

(* C8: a run in which the imports succeed, the model directory exists and  *)
(* no step raises ends in Packaged with status 0, having written the       *)
(* artifact exactly once at Models/Embeddings/embeddings.mlpackage with    *)
(* inputs input_ids and attention_mask of shape (1,128) and output         *)
(* embeddings; no other run ends with status 0.                            *)
C8_SuccessWritesArtifact ==
    LET Success ==
            /\ exitCode = 0
            /\ stages = StageOrder
            /\ trail = StepOrder
            /\ writes = 1
            /\ fs[<<"Models", "Embeddings", "embeddings.mlpackage">>] = "package"
            /\ saved.kind = "MLModel"
            /\ Len(saved.inputs) = 2
            /\ saved.inputs[1].name = "input_ids"
            /\ saved.inputs[1].shape = <<1, 128>>
            /\ saved.inputs[2].name = "attention_mask"
            /\ saved.inputs[2].shape = <<1, 128>>
            /\ saved.outputs = <<"embeddings">>
    IN  /\ (Terminated /\ fault = NoFault) => Success
        /\ exitCode = 0 =>
              Terminated /\ fault = NoFault /\ fs0[model_dir] # "absent"

C8_Witness ==
    /\ Terminated /\ exitCode = 0 /\ fault = NoFault
    /\ fs[output_path] = "package" /\ fs0[output_path] = "package"

(* C9, as stated: the troubleshooting note is printed exactly in the runs  *)
(* where the graph-conversion step itself failed.                          *)
C9_NoteOnlyForConvert ==
    Terminated => (Printed("note") <=> RaisedIn({"convert"}))

(* C9, amended: the troubleshooting note is printed exactly in the runs    *)
(* where a step of the conversion try block raised: the graph conversion,  *)
(* a metadata assignment, the save or the size report; it is never printed *)
(* for a dependency, model-directory, load or tracing failure.             *)
C9_NoteForConversionTry ==
    Terminated => (Printed("note") <=> RaisedIn(ConversionTrySteps))

C9_Witness ==
    /\ fault = <<"report", "Exception">>
    /\ Terminated /\ Printed("converted") /\ Printed("note")

====
